---- MODULE Spec2Model ----
(***************************************************************************)
(* Model of src/src/index.js: the playback controller                      *)
(* (ChristmasTreeSimulator), the coordinate mapping and the text decoders. *)
(*                                                                         *)
(* Time is counted in integer ticks.  One second is TicksPerSecond ticks,  *)
(* chosen so that every frame duration 1 / baseFrameRate is a whole number *)
(* of ticks; the floor of duration (1e-9 in the source) is one tick.       *)
(* JavaScript's % is the truncated remainder (sign of the dividend); it is *)
(* modelled by JsRem, not by TLA+'s floored %.                             *)
(***************************************************************************)
EXTENDS Integers, Sequences, FiniteSets, TLC

VARIABLES
    status,               \* "none" before new, "constructed", or "threw"
    _currentTime,         \* this._currentTime (stored, not yet wrapped)
    playbackRate,         \* this.playbackRate
    inititalPlaybackRate, \* this.inititalPlaybackRate
    baseFrameRate,        \* this.baseFrameRate
    isPlaying,            \* this.isPlaying
    startPlaying,         \* this.startPlaying
    dirty,                \* this.dirty
    dirtyGeometry,        \* this.dirtyGeometry
    animationFrames,      \* this.animationFrames
    coordinateMapping,    \* this.coordinateMapping
    ctorBaseFrameRate,    \* history: the baseFrameRate option given to new
    wroteSince,           \* history: a time-writing call since the last clearDirty
    lastOp,               \* history: name of the last call
    ret,                  \* history: what the last call returned
    decoderInput,         \* text handed to a decoder
    decoderConfig,        \* the decoder's constructor options
    decoderOutput         \* what decode returned (or that it threw)

vars == <<status, _currentTime, playbackRate, inititalPlaybackRate, baseFrameRate,
          isPlaying, startPlaying, dirty, dirtyGeometry, animationFrames,
          coordinateMapping, ctorBaseFrameRate, wroteSince, lastOp, ret,
          decoderInput, decoderConfig, decoderOutput>>

simVars == <<status, _currentTime, playbackRate, inititalPlaybackRate, baseFrameRate,
             isPlaying, startPlaying, dirty, dirtyGeometry, animationFrames,
             coordinateMapping, ctorBaseFrameRate, wroteSince, lastOp, ret>>

decoderVars == <<decoderInput, decoderConfig, decoderOutput>>

(***************************************************************************)
(* Bounds of the model.                                                    *)
(***************************************************************************)
MaxFrames == 2
MaxDelta == 2

BaseFrameRates == {1, 2}
PlaybackRates == {-1, 2}
PixelsPerFrame == 2
CoordinateCounts == {1}
ProgressDen == 2

TicksPerSecond == CHOOSE r \in BaseFrameRates : \A q \in BaseFrameRates : r % q = 0
Deltas == (0 - MaxDelta) .. MaxDelta
Times == {0 - 1, 0, 1, 2 * MaxFrames * TicksPerSecond}
ResetTimes == {0 - 1, MaxFrames * TicksPerSecond + 1}
Progresses == (0 - 1) .. (ProgressDen + 1)

(***************************************************************************)
(* JavaScript arithmetic.                                                  *)
(***************************************************************************)
\* a % b for b > 0: the result has the sign of a.
JsRem(a, b) == IF a >= 0 THEN a % b ELSE 0 - ((0 - a) % b)

\* Math.floor(a / b) for b > 0.
JsFloorDiv(a, b) == a \div b

\* The mathematical, non-negative a mod b.
FlooredMod(a, b) == a % b

MaxOf(a, b) == IF a >= b THEN a ELSE b

(***************************************************************************)
(* Data handed to setData.                                                 *)
(***************************************************************************)
\* n frames of PixelsPerFrame pixels; pixel i of frame f has colour <<f, i>>.
AnimationSet(n) == [f \in 1 .. n |-> [i \in 1 .. PixelsPerFrame |-> <<f, i>>]]
AnimationSets == {AnimationSet(n) : n \in 0 .. MaxFrames}

\* new CoordinateMapping with m coordinates loaded; null is NoMapping.
Null == <<>>
NoMapping == [isNull |-> TRUE, mapping |-> <<>>]
Mapping(m) == [isNull |-> FALSE, mapping |-> [i \in 1 .. m |-> <<i, i, i>>]]
Mappings == {Mapping(m) : m \in CoordinateCounts}

(***************************************************************************)
(* ChristmasTreeSimulator.  The object is a record `this`; `assigned` is   *)
(* the set of properties that exist on it (it grows while the constructor  *)
(* runs), and `threw` records an uncaught TypeError.                       *)
(***************************************************************************)
Fields == {"_currentTime", "inititalPlaybackRate", "playbackRate", "baseFrameRate",
           "isPlaying", "startPlaying", "dirty", "dirtyGeometry",
           "animationFrames", "coordinateMapping"}

\* The fresh object `new` hands to the constructor: no property exists yet.
Fresh == [assigned |-> {}, threw |-> FALSE,
          _currentTime |-> 0, inititalPlaybackRate |-> 1, playbackRate |-> 1,
          baseFrameRate |-> 1, isPlaying |-> FALSE, startPlaying |-> FALSE,
          dirty |-> FALSE, dirtyGeometry |-> FALSE,
          animationFrames |-> <<>>, coordinateMapping |-> NoMapping]

\* The constructed object held in the variables.
This == [assigned |-> Fields, threw |-> FALSE,
         _currentTime |-> _currentTime, inititalPlaybackRate |-> inititalPlaybackRate,
         playbackRate |-> playbackRate, baseFrameRate |-> baseFrameRate,
         isPlaying |-> isPlaying, startPlaying |-> startPlaying,
         dirty |-> dirty, dirtyGeometry |-> dirtyGeometry,
         animationFrames |-> animationFrames, coordinateMapping |-> coordinateMapping]

\* this.<f> = v
Assign(this, f, v) == [[this EXCEPT ![f] = v] EXCEPT !.assigned = @ \cup {f}]

\* Reading .length of this.animationFrames while it is still undefined is a TypeError.
frameCountThrows(this) == "animationFrames" \notin this.assigned

frameCount(this) == Len(this.animationFrames)

frameDuration(this) == TicksPerSecond \div this.baseFrameRate

Epsilon == 1

duration(this) == MaxOf(Epsilon, frameCount(this) * frameDuration(this))

\* Variant of the getter that returns the stored value without wrapping it.
currentTime_NoWrap(this) == this._currentTime

\* get currentTime
currentTime(this) == JsRem(this._currentTime, duration(this))

\* Variant of the setter that omits val += this.duration.
set_currentTime_NoAdd(this, val) ==
    IF val < 0 /\ frameCountThrows(this)
    THEN [this EXCEPT !.threw = TRUE]
    ELSE LET v == IF val < 0 THEN JsRem(val, duration(this)) ELSE val
         IN  Assign(Assign(this, "_currentTime", v), "dirty", TRUE)

\* set currentTime
set_currentTime(this, val) ==
    IF val < 0 /\ frameCountThrows(this)
    THEN [this EXCEPT !.threw = TRUE]
    ELSE LET v == IF val < 0
                  THEN JsRem(val, duration(this)) + duration(this)
                  ELSE val
         IN  Assign(Assign(this, "_currentTime", v), "dirty", TRUE)

\* get currentFrameIdx is NaN (x % 0) when no frame is loaded.
currentFrameIdxIsNaN(this) == frameCount(this) = 0

currentFrameIdx(this) ==
    JsRem(JsFloorDiv(currentTime(this), frameDuration(this)), frameCount(this))

\* set currentProgress, for progress = p / ProgressDen
set_currentProgress(this, p) ==
    set_currentTime(this,
        JsFloorDiv(p * frameCount(this), ProgressDen) * frameDuration(this))

\* Variant of idxToCoord whose lower bound test is idx <= 0.
idxToCoord_SkipFirst(cm, idx, defaultValue) ==
    IF idx <= 0 \/ idx >= Len(cm.mapping) THEN defaultValue ELSE cm.mapping[idx + 1]

\* CoordinateMapping.idxToCoord
idxToCoord(cm, idx, defaultValue) ==
    IF idx < 0 \/ idx >= Len(cm.mapping) THEN defaultValue ELSE cm.mapping[idx + 1]

\* getCurrentFrameMapped throws when animationFrames[NaN] is undefined, or when a
\* pixel is mapped through a null coordinateMapping.
getCurrentFrameMappedThrows(this) ==
    \/ currentFrameIdxIsNaN(this)
    \/ /\ this.coordinateMapping.isNull
       /\ Len(this.animationFrames[currentFrameIdx(this) + 1]) > 0

getCurrentFrameMapped(this) ==
    LET frame == this.animationFrames[currentFrameIdx(this) + 1]
    IN  [i \in 1 .. Len(frame) |->
            [position |-> idxToCoord(this.coordinateMapping, i - 1, Null),
             color |-> frame[i]]]

\* An options object: `given` names the properties that are present and not undefined.
Opt(o, f, default) == IF f \in o.given THEN o[f] ELSE default

\* constructor({startPlaying = false, startTime = 0, inititalPlaybackRate = 1,
\*              baseFrameRate = 60} = {})
constructor(o) ==
    LET t1 == Assign(Fresh, "_currentTime", 0)   \* null reads as 0 in arithmetic
        t2 == set_currentTime(t1, o.startTime)
        t3 == Assign(t2, "inititalPlaybackRate", o.inititalPlaybackRate)
        t4 == Assign(t3, "playbackRate", o.inititalPlaybackRate)
        t5 == Assign(t4, "baseFrameRate", o.baseFrameRate)
        t6 == Assign(t5, "isPlaying", o.startPlaying)
        t7 == Assign(t6, "startPlaying", o.startPlaying)
        t8 == Assign(t7, "dirty", TRUE)
        t9 == Assign(t8, "dirtyGeometry", TRUE)
        t10 == Assign(t9, "animationFrames", <<>>)
        t11 == Assign(t10, "coordinateMapping", NoMapping)
    IN  IF t2.threw THEN t2 ELSE t11

\* resetPlayback({startPlaying, playbackRate, baseFrameRate, startTime = 0} = {})
resetPlayback(this, o) ==
    LET t1 == IF "startPlaying" \in o.given
              THEN Assign(this, "isPlaying", o.startPlaying)
              ELSE Assign(this, "isPlaying", this.startPlaying)
        t2 == IF "playbackRate" \in o.given
              THEN Assign(t1, "playbackRate", o.playbackRate)
              ELSE Assign(t1, "playbackRate", t1.inititalPlaybackRate)
        t3 == IF "baseFrameRate" \in o.given
              THEN Assign(t2, "baseFrameRate", o.baseFrameRate)
              ELSE t2
    IN  set_currentTime(t3, Opt(o, "startTime", 0))

\* Variant of setData that omits this.currentTime = 0.
setData_KeepTime(this, o) ==
    LET t1 == IF "animationFrames" \in o.given
              THEN Assign(this, "animationFrames", o.animationFrames)
              ELSE this
    IN  IF "coordinateMapping" \in o.given
        THEN Assign(Assign(t1, "coordinateMapping", o.coordinateMapping),
                    "dirtyGeometry", TRUE)
        ELSE t1

\* setData({animationFrames, coordinateMapping}): a property that is undefined or
\* null (loose != undefined) is not taken.
setData(this, o) ==
    LET t1 == IF "animationFrames" \in o.given
              THEN Assign(this, "animationFrames", o.animationFrames)
              ELSE this
        t2 == IF "coordinateMapping" \in o.given
              THEN Assign(Assign(t1, "coordinateMapping", o.coordinateMapping),
                          "dirtyGeometry", TRUE)
              ELSE t1
    IN  set_currentTime(t2, 0)

\* clearDirty: the returned value and the object afterwards
clearDirty(this) == [ret |-> this.dirty, this |-> Assign(this, "dirty", FALSE)]

\* clearGeometryDirty
clearGeometryDirty(this) ==
    [ret |-> this.dirtyGeometry, this |-> Assign(this, "dirtyGeometry", FALSE)]

\* seekRelative: this.currentTime += deltaTime reads the getter, then calls the setter
seekRelative(this, deltaTime) == set_currentTime(this, currentTime(this) + deltaTime)

\* processTimeAdvance
processTimeAdvance(this, deltaTime) ==
    IF this.isPlaying
    THEN seekRelative(this, deltaTime * this.playbackRate)
    ELSE this

\* Variant of setPlaybackRate that also marks dirty.
setPlaybackRate_Dirty(this, rate) ==
    Assign(Assign(this, "playbackRate", rate), "dirty", TRUE)

\* setPlaybackRate(rate = 1)
setPlaybackRate(this, rate) ==
    IF this.playbackRate # rate THEN Assign(this, "playbackRate", rate) ELSE this

(***************************************************************************)
(* The calls a client can make, one action each.                           *)
(***************************************************************************)
\* Two sessions that differ in every option, each with three start times.
ConstructorOptions ==
    {[startPlaying |-> FALSE, startTime |-> st,
      inititalPlaybackRate |-> 2, baseFrameRate |-> 2] : st \in {0 - 1, 0, 1}}
    \cup
    {[startPlaying |-> TRUE, startTime |-> st,
      inititalPlaybackRate |-> 0 - 1, baseFrameRate |-> 1] : st \in {0 - 1, 0, 1}}

ResetNames == {"startPlaying", "playbackRate", "baseFrameRate", "startTime"}

\* Every resetPlayback argument; a property that is not given carries a fixed filler.
ResetOptions ==
    {o \in [given : SUBSET ResetNames, startPlaying : BOOLEAN,
            playbackRate : PlaybackRates, baseFrameRate : BaseFrameRates,
            startTime : {0} \cup ResetTimes] :
        /\ "startPlaying" \notin o.given => o.startPlaying = FALSE
        /\ "playbackRate" \notin o.given => o.playbackRate = 2
        /\ "baseFrameRate" \notin o.given => o.baseFrameRate = 1
        /\ "startTime" \notin o.given => o.startTime = 0
        /\ "startTime" \in o.given => o.startTime \in ResetTimes}

DataNames == {"animationFrames", "coordinateMapping"}

SetDataOptions ==
    {o \in [given : SUBSET DataNames, animationFrames : AnimationSets,
            coordinateMapping : Mappings] :
        /\ "animationFrames" \notin o.given => o.animationFrames = <<>>
        /\ "coordinateMapping" \notin o.given => o.coordinateMapping = Mapping(1)}

NoRet == [kind |-> "undefined", bool |-> FALSE, frame |-> <<>>]
BoolRet(b) == [kind |-> "boolean", bool |-> b, frame |-> <<>>]
FrameRet(f) == [kind |-> "frame", bool |-> FALSE, frame |-> f]
ThrowRet == [kind |-> "TypeError", bool |-> FALSE, frame |-> <<>>]

\* Store the object `t` back into the variables.
Commit(t) ==
    /\ _currentTime' = t._currentTime
    /\ inititalPlaybackRate' = t.inititalPlaybackRate
    /\ playbackRate' = t.playbackRate
    /\ baseFrameRate' = t.baseFrameRate
    /\ isPlaying' = t.isPlaying
    /\ startPlaying' = t.startPlaying
    /\ dirty' = t.dirty
    /\ dirtyGeometry' = t.dirtyGeometry
    /\ animationFrames' = t.animationFrames
    /\ coordinateMapping' = t.coordinateMapping

Init ==
    /\ status = "none"
    /\ _currentTime = Fresh._currentTime
    /\ inititalPlaybackRate = Fresh.inititalPlaybackRate
    /\ playbackRate = Fresh.playbackRate
    /\ baseFrameRate = Fresh.baseFrameRate
    /\ isPlaying = Fresh.isPlaying
    /\ startPlaying = Fresh.startPlaying
    /\ dirty = Fresh.dirty
    /\ dirtyGeometry = Fresh.dirtyGeometry
    /\ animationFrames = Fresh.animationFrames
    /\ coordinateMapping = Fresh.coordinateMapping
    /\ ctorBaseFrameRate = Fresh.baseFrameRate
    /\ wroteSince = FALSE
    /\ lastOp = "none"
    /\ ret = NoRet
    /\ decoderInput = <<>>
    /\ decoderConfig = [kind |-> "none"]
    /\ decoderOutput = [threw |-> FALSE, value |-> <<>>]

\* new ChristmasTreeSimulator(o)
Construct ==
    /\ status = "none"
    /\ \E o \in ConstructorOptions :
        LET t == constructor(o)
        IN  /\ status' = IF t.threw THEN "threw" ELSE "constructed"
            /\ IF t.threw THEN Commit(Fresh) ELSE Commit(t)
            /\ ctorBaseFrameRate' = o.baseFrameRate
            /\ wroteSince' = ~t.threw
            /\ ret' = IF t.threw THEN ThrowRet ELSE NoRet
    /\ lastOp' = "constructor"
    /\ UNCHANGED decoderVars

SetData ==
    /\ status = "constructed"
    /\ \E o \in SetDataOptions : Commit(setData(This, o))
    /\ wroteSince' = TRUE
    /\ lastOp' = "setData"
    /\ ret' = NoRet
    /\ UNCHANGED <<status, ctorBaseFrameRate, decoderVars>>

ResetPlayback ==
    /\ status = "constructed"
    /\ \E o \in ResetOptions : Commit(resetPlayback(This, o))
    /\ wroteSince' = TRUE
    /\ lastOp' = "resetPlayback"
    /\ ret' = NoRet
    /\ UNCHANGED <<status, ctorBaseFrameRate, decoderVars>>

SeekRelative ==
    /\ status = "constructed"
    /\ \E d \in Deltas : Commit(seekRelative(This, d))
    /\ wroteSince' = TRUE
    /\ lastOp' = "seekRelative"
    /\ ret' = NoRet
    /\ UNCHANGED <<status, ctorBaseFrameRate, decoderVars>>

ProcessTimeAdvance ==
    /\ status = "constructed"
    /\ \E d \in Deltas : Commit(processTimeAdvance(This, d))
    /\ wroteSince' = (wroteSince \/ isPlaying)
    /\ lastOp' = "processTimeAdvance"
    /\ ret' = NoRet
    /\ UNCHANGED <<status, ctorBaseFrameRate, decoderVars>>

SetPlaybackRate ==
    /\ status = "constructed"
    /\ \E r \in PlaybackRates : Commit(setPlaybackRate(This, r))
    /\ lastOp' = "setPlaybackRate"
    /\ ret' = NoRet
    /\ UNCHANGED <<status, ctorBaseFrameRate, wroteSince, decoderVars>>

\* sim.currentTime = val
AssignCurrentTime ==
    /\ status = "constructed"
    /\ \E val \in Times : Commit(set_currentTime(This, val))
    /\ wroteSince' = TRUE
    /\ lastOp' = "currentTime="
    /\ ret' = NoRet
    /\ UNCHANGED <<status, ctorBaseFrameRate, decoderVars>>

\* sim.currentProgress = p / ProgressDen
AssignCurrentProgress ==
    /\ status = "constructed"
    /\ \E p \in Progresses : Commit(set_currentProgress(This, p))
    /\ wroteSince' = TRUE
    /\ lastOp' = "currentProgress="
    /\ ret' = NoRet
    /\ UNCHANGED <<status, ctorBaseFrameRate, decoderVars>>

ClearDirty ==
    /\ status = "constructed"
    /\ Commit(clearDirty(This).this)
    /\ ret' = BoolRet(clearDirty(This).ret)
    /\ wroteSince' = FALSE
    /\ lastOp' = "clearDirty"
    /\ UNCHANGED <<status, ctorBaseFrameRate, decoderVars>>

ClearGeometryDirty ==
    /\ status = "constructed"
    /\ Commit(clearGeometryDirty(This).this)
    /\ ret' = BoolRet(clearGeometryDirty(This).ret)
    /\ lastOp' = "clearGeometryDirty"
    /\ UNCHANGED <<status, ctorBaseFrameRate, wroteSince, decoderVars>>

GetCurrentFrameMapped ==
    /\ status = "constructed"
    /\ ret' = IF getCurrentFrameMappedThrows(This)
              THEN ThrowRet
              ELSE FrameRet(getCurrentFrameMapped(This))
    /\ lastOp' = "getCurrentFrameMapped"
    /\ Commit(This)
    /\ UNCHANGED <<status, ctorBaseFrameRate, wroteSince, decoderVars>>

Next ==
    \/ Construct
    \/ SetData
    \/ ResetPlayback
    \/ SeekRelative
    \/ ProcessTimeAdvance
    \/ SetPlaybackRate
    \/ AssignCurrentTime
    \/ AssignCurrentProgress
    \/ ClearDirty
    \/ ClearGeometryDirty
    \/ GetCurrentFrameMapped

Spec == Init /\ [][Next]_vars

(***************************************************************************)
(* Properties of the playback controller, checked under Spec.              *)
(***************************************************************************)
Constructed == status = "constructed"

\* C1: on a constructed controller, whatever calls were made, a read of
\* currentTime returns t with 0 <= t < duration, duration being
\* max(epsilon, frameCount * frameDuration).
C1_CurrentTimeInRange ==
    Constructed =>
        /\ duration(This) = MaxOf(Epsilon, Len(animationFrames) * (TicksPerSecond \div baseFrameRate))
        /\ 0 <= currentTime(This)
        /\ currentTime(This) < duration(This)

\* C1 witness: after a time advance the stored value has grown past the duration
\* of a loaded animation, so the read has to wrap it.
C1_Witness ==
    /\ Constructed
    /\ lastOp \in {"seekRelative", "processTimeAdvance"}
    /\ Len(animationFrames) > 0
    /\ _currentTime > duration(This)

\* C2 (as claimed): resetPlayback sets each of isPlaying, playbackRate and
\* baseFrameRate whose option is omitted to the value given to the constructor,
\* and then sets currentTime to startTime (default 0).
C2_ResetRestoresSessionDefaults ==
    Constructed =>
        \A o \in ResetOptions :
            LET t == resetPlayback(This, o)
            IN  /\ "startPlaying" \notin o.given => t.isPlaying = startPlaying
                /\ "playbackRate" \notin o.given => t.playbackRate = inititalPlaybackRate
                /\ "baseFrameRate" \notin o.given => t.baseFrameRate = ctorBaseFrameRate
                /\ currentTime(t) = FlooredMod(Opt(o, "startTime", 0), duration(t))

\* C5: every setData call leaves currentTime reading 0 and dirty true, sets
\* dirtyGeometry exactly when a coordinateMapping is supplied, keeps a reference
\* that is not supplied, and leaves playbackRate, baseFrameRate and isPlaying alone.
C5_SetDataEffect ==
    Constructed =>
        \A o \in SetDataOptions :
            LET t == setData(This, o)
            IN  /\ ~t.threw
                /\ currentTime(t) = 0
                /\ t.dirty
                /\ t.dirtyGeometry = (("coordinateMapping" \in o.given) \/ dirtyGeometry)
                /\ t.animationFrames = Opt(o, "animationFrames", animationFrames)
                /\ t.coordinateMapping = Opt(o, "coordinateMapping", coordinateMapping)
                /\ t.playbackRate = playbackRate
                /\ t.baseFrameRate = baseFrameRate
                /\ t.isPlaying = isPlaying

\* C5 witness: setData has just run without a coordinateMapping on a controller
\* whose geometry flag had been consumed and which already held frames and a mapping.
C5_Witness ==
    /\ Constructed
    /\ lastOp = "setData"
    /\ ~dirtyGeometry
    /\ dirty
    /\ _currentTime = 0
    /\ Len(animationFrames) > 0
    /\ ~coordinateMapping.isNull
    /\ playbackRate # inititalPlaybackRate

\* The frame index the specification gives: floor(currentTime / frameDuration) mod frameCount.
ExpectedFrameIdx ==
    FlooredMod(currentTime(This) \div (TicksPerSecond \div baseFrameRate), Len(animationFrames))

\* The pairing the specification gives for pixel i (1-based here) of frame f.
ExpectedMapped(f) ==
    [i \in 1 .. Len(animationFrames[f]) |->
        [position |-> IF i <= Len(coordinateMapping.mapping)
                      THEN coordinateMapping.mapping[i]
                      ELSE Null,
         color |-> animationFrames[f][i]]]

\* C6: with at least one frame and a coordinate mapping loaded, getCurrentFrameMapped
\* succeeds, the frame index is floor(currentTime / frameDuration) mod frameCount and
\* lies in [0, frameCount), and entry i pairs the frame's pixel i with coordinate i,
\* or with null when i is past the coordinates.
C6_FrameMapped ==
    (Constructed /\ Len(animationFrames) >= 1 /\ ~coordinateMapping.isNull) =>
        /\ ~getCurrentFrameMappedThrows(This)
        /\ currentFrameIdx(This) = ExpectedFrameIdx
        /\ currentFrameIdx(This) \in 0 .. (Len(animationFrames) - 1)
        /\ getCurrentFrameMapped(This) = ExpectedMapped(ExpectedFrameIdx + 1)
        /\ lastOp = "getCurrentFrameMapped" =>
                ret = FrameRet(ExpectedMapped(ExpectedFrameIdx + 1))

\* C6 witness: getCurrentFrameMapped has returned a frame other than the first, whose
\* pixel 0 has a position and whose pixel 1 is past the coordinates.
C6_Witness ==
    /\ Constructed
    /\ lastOp = "getCurrentFrameMapped"
    /\ ret.kind = "frame"
    /\ currentFrameIdx(This) > 0
    /\ Len(ret.frame) = PixelsPerFrame
    /\ ret.frame[1].position # Null
    /\ ret.frame[PixelsPerFrame].position = Null

\* C7: clearDirty returns the flag and leaves it false; it returns true exactly when
\* a time-writing call (or the construction) happened since the previous clearDirty.
\* setPlaybackRate, clearGeometryDirty and a paused processTimeAdvance do not touch
\* dirty; a second clearDirty in a row returns false; clearGeometryDirty returns and
\* clears dirtyGeometry without touching dirty.
C7_DirtyConsumeOnce ==
    Constructed =>
        /\ clearDirty(This).ret = wroteSince
        /\ ~clearDirty(This).this.dirty
        /\ ~clearDirty(clearDirty(This).this).ret
        /\ lastOp = "clearDirty" => (ret.kind = "boolean" /\ ~dirty /\ ~wroteSince)
        /\ \A r \in PlaybackRates : setPlaybackRate(This, r).dirty = dirty
        /\ ~isPlaying => \A d \in Deltas : processTimeAdvance(This, d).dirty = dirty
        /\ clearGeometryDirty(This).ret = dirtyGeometry
        /\ ~clearGeometryDirty(This).this.dirtyGeometry
        /\ clearGeometryDirty(This).this.dirty = dirty

\* C7 witness: clearDirty has just returned true on a paused controller whose rate
\* was changed after construction.
C7_Witness ==
    /\ Constructed
    /\ lastOp = "clearDirty"
    /\ ret = BoolRet(TRUE)
    /\ ~isPlaying
    /\ playbackRate # inititalPlaybackRate

\* C8: seekRelative(d) makes currentTime read the non-negative (t + d) mod duration,
\* whatever the sign of d and whether playing or not; processTimeAdvance(d) is
\* seekRelative(d * playbackRate) when playing and changes nothing when paused.
C8_ModularAdvance ==
    Constructed =>
        \A d \in Deltas :
            /\ ~seekRelative(This, d).threw
            /\ currentTime(seekRelative(This, d))
                   = FlooredMod(currentTime(This) + d, duration(This))
            /\ duration(seekRelative(This, d)) = duration(This)
            /\ isPlaying =>
                   /\ processTimeAdvance(This, d) = seekRelative(This, d * playbackRate)
                   /\ currentTime(processTimeAdvance(This, d))
                          = FlooredMod(currentTime(This) + d * playbackRate, duration(This))
            /\ ~isPlaying => processTimeAdvance(This, d) = This

\* C8 witness: the worked example; with a duration of 2 seconds a seek has left
\* currentTime reading 1.5 seconds, stored by the negative branch of the setter,
\* and a -0.5 second seek from time 0 gives 1.5 seconds.
C8_Witness ==
    /\ Constructed
    /\ lastOp = "seekRelative"
    /\ duration(This) = 2 * TicksPerSecond
    /\ 2 * currentTime(This) = 3 * TicksPerSecond
    /\ 2 * currentTime(seekRelative(set_currentTime(This, 0), 0 - (TicksPerSecond \div 2)))
           = 3 * TicksPerSecond

\* C10 (as claimed): construction with any startTime, a negative one included,
\* completes without error and yields a controller with no frames, dirty and
\* dirtyGeometry true, and currentTime within [0, duration).
C10_ConstructorAcceptsAnyStartTime ==
    lastOp = "constructor" =>
        /\ status = "constructed"
        /\ dirty
        /\ dirtyGeometry
        /\ Len(animationFrames) = 0
        /\ 0 <= currentTime(This)
        /\ currentTime(This) < duration(This)

(***************************************************************************)
(* Text handling shared by the CSV decoders.  A string is a sequence of    *)
(* one-character strings.                                                  *)
(***************************************************************************)
RECURSIVE SplitFrom(_, _, _, _)
\* The pieces of s from position i on, cur being the piece read so far.
SplitFrom(s, sep, i, cur) ==
    IF i > Len(s) THEN <<cur>>
    ELSE IF s[i] = sep THEN <<cur>> \o SplitFrom(s, sep, i + 1, <<>>)
    ELSE SplitFrom(s, sep, i + 1, Append(cur, s[i]))

\* String.prototype.split(sep) for a one-character separator
Split(s, sep) == SplitFrom(s, sep, 1, <<>>)

\* Array.prototype.splice(0, n): the lines left after removing the first n
DropFirst(lines, n) ==
    IF n >= Len(lines) THEN <<>> ELSE SubSeq(lines, n + 1, Len(lines))

\* line.replace(/[^,]/g, '').length: the number of commas
CommaCount(line) == Cardinality({i \in 1 .. Len(line) : line[i] = ","})

IsSpace(c) == c = " "

RECURSIVE TrimLeft(_)
TrimLeft(s) == IF Len(s) > 0 /\ IsSpace(Head(s)) THEN TrimLeft(Tail(s)) ELSE s

RECURSIVE TrimRight(_)
TrimRight(s) ==
    IF Len(s) > 0 /\ IsSpace(s[Len(s)]) THEN TrimRight(SubSeq(s, 1, Len(s) - 1)) ELSE s

\* String.prototype.trim
Trim(s) == TrimRight(TrimLeft(s))

Digits == <<"0", "1", "2", "3", "4", "5", "6", "7", "8", "9">>
IsDigit(c) == \E k \in 1 .. 10 : Digits[k] = c
DigitValue(c) == (CHOOSE k \in 1 .. 10 : Digits[k] = c) - 1

\* A JavaScript number, of which only NaN and the naturals occur here.
NaN == [nan |-> TRUE, v |-> 0]
Num(n) == [nan |-> FALSE, v |-> n]

RECURSIVE DigitPrefixValue(_, _, _)
\* The value of the longest run of digits of s starting at i, acc being its value so far.
DigitPrefixValue(s, i, acc) ==
    IF i > Len(s) \/ ~IsDigit(s[i]) THEN acc
    ELSE DigitPrefixValue(s, i + 1, 10 * acc + DigitValue(s[i]))

\* parseInt(s, 10) and parseFloat(s) on text without sign, point or exponent: leading
\* white space is skipped, the longest digit prefix is read and whatever follows it is
\* ignored; NaN when there is no digit prefix.
ParseNumber(s) ==
    LET t == TrimLeft(s)
    IN  IF Len(t) > 0 /\ IsDigit(t[1]) THEN Num(DigitPrefixValue(t, 1, 0)) ELSE NaN

(***************************************************************************)
(* JsonArrayCoordinateDecoder.  JSON.parse is the platform's; the decoder  *)
(* is modelled on the parsed value: an array whose elements are arrays     *)
(* (isArray) of numbers and strings, or a bare number (not isArray).       *)
(***************************************************************************)
JsonNumber(n) == [type |-> "number", v |-> n]
JsonString == [type |-> "string", v |-> 0]
JsonElements == {JsonNumber(1), JsonNumber(2), JsonString}
JsonRowLengths == {2, 3}
MaxJsonRows == 2

JsonRows ==
    {[isArray |-> TRUE, items |-> it] :
        it \in UNION {[1 .. n -> JsonElements] : n \in JsonRowLengths}}
    \cup {[isArray |-> FALSE, items |-> <<>>]}

\* row => row.length === 3 && row.every(x => typeof x === "number")
JsonRowIsTriple(row) ==
    /\ row.isArray
    /\ Len(row.items) = 3
    /\ \A i \in 1 .. Len(row.items) : row.items[i].type = "number"

Threw == [threw |-> TRUE, value |-> <<>>]
Returned(v) == [threw |-> FALSE, value |-> v]

\* JsonArrayCoordinateDecoder.decode, after JSON.parse
JsonArrayCoordinateDecoder_decode(geometry) ==
    IF ~(Len(geometry) >= 1) \/ (\A i \in 1 .. Len(geometry) : JsonRowIsTriple(geometry[i]))
    THEN Threw
    ELSE Returned(geometry)

NotDecoded == [threw |-> FALSE, value |-> <<>>]

InitDecoder ==
    /\ status = "none"
    /\ _currentTime = Fresh._currentTime
    /\ inititalPlaybackRate = Fresh.inititalPlaybackRate
    /\ playbackRate = Fresh.playbackRate
    /\ baseFrameRate = Fresh.baseFrameRate
    /\ isPlaying = Fresh.isPlaying
    /\ startPlaying = Fresh.startPlaying
    /\ dirty = Fresh.dirty
    /\ dirtyGeometry = Fresh.dirtyGeometry
    /\ animationFrames = Fresh.animationFrames
    /\ coordinateMapping = Fresh.coordinateMapping
    /\ ctorBaseFrameRate = Fresh.baseFrameRate
    /\ wroteSince = FALSE
    /\ ret = NoRet
    /\ decoderOutput = NotDecoded

InitJson ==
    /\ InitDecoder
    /\ lastOp = "none"
    /\ decoderInput = <<>>
    /\ decoderConfig = [kind |-> "JsonArrayCoordinateDecoder"]

\* The caller's document grows by one element.
JsonAppendRow ==
    /\ lastOp = "none"
    /\ Len(decoderInput) < MaxJsonRows
    /\ \E row \in JsonRows : decoderInput' = Append(decoderInput, row)
    /\ UNCHANGED <<simVars, decoderConfig, decoderOutput>>

\* new JsonArrayCoordinateDecoder().decode(JSON text of decoderInput)
JsonDecode ==
    /\ lastOp = "none"
    /\ decoderOutput' = JsonArrayCoordinateDecoder_decode(decoderInput)
    /\ lastOp' = "decode"
    /\ UNCHANGED <<status, _currentTime, playbackRate, inititalPlaybackRate,
                   baseFrameRate, isPlaying, startPlaying, dirty, dirtyGeometry,
                   animationFrames, coordinateMapping, ctorBaseFrameRate, wroteSince,
                   ret, decoderInput, decoderConfig>>

NextJson == JsonAppendRow \/ JsonDecode

SpecJson == InitJson /\ [][NextJson]_vars

\* C3 (as claimed): decode fails exactly when the parsed array is empty or some
\* element is not a 3-element array of numbers, and otherwise returns the same
\* triples, same length and same order.
C3_JsonDecodeValidates ==
    (decoderConfig.kind = "JsonArrayCoordinateDecoder" /\ lastOp = "decode") =>
        LET bad == \/ Len(decoderInput) = 0
                   \/ \E i \in 1 .. Len(decoderInput) :
                        \/ ~decoderInput[i].isArray
                        \/ Len(decoderInput[i].items) # 3
                        \/ \E j \in 1 .. Len(decoderInput[i].items) :
                              decoderInput[i].items[j].type # "number"
        IN  /\ decoderOutput.threw <=> bad
            /\ ~bad => decoderOutput.value = decoderInput

(***************************************************************************)
(* CsvCoordinateDecoder                                                    *)
(***************************************************************************)
MaxCsvLen == 6
CsvChars == {",", "\n", "7"}
CsvCoordinateConfigs ==
    [kind : {"CsvCoordinateDecoder"}, xyzColumns : {<<0, 1, 2>>},
     skipRowCount : {0, 1}, validationMaxColumns : {2, 3}]

Max3(a, b, c) == MaxOf(a, MaxOf(b, c))

\* fields => [fields[fieldX], fields[fieldY], fields[fieldZ]].map(c => parseFloat(c))
CsvCoordinateRow(cfg, fields) ==
    <<ParseNumber(fields[cfg.xyzColumns[1] + 1]),
      ParseNumber(fields[cfg.xyzColumns[2] + 1]),
      ParseNumber(fields[cfg.xyzColumns[3] + 1])>>

RECURSIVE CsvCoordinateRows(_, _, _)
\* lines.map(split).filter(enough fields).map(to [x, y, z]), from line i on
CsvCoordinateRows(cfg, lines, i) ==
    IF i > Len(lines) THEN <<>>
    ELSE LET fields == Split(Trim(lines[i]), ",")
             highestFieldIndex ==
                 Max3(cfg.xyzColumns[1], cfg.xyzColumns[2], cfg.xyzColumns[3])
         IN  (IF Len(fields) > highestFieldIndex
              THEN <<CsvCoordinateRow(cfg, fields)>>
              ELSE <<>>)
             \o CsvCoordinateRows(cfg, lines, i + 1)

\* The lines decode works on: split on newline, the first skipRowCount removed.
CsvLines(cfg, inputString) ==
    LET lines == Split(inputString, "\n")
    IN  IF cfg.skipRowCount > 0 THEN DropFirst(lines, cfg.skipRowCount) ELSE lines

\* Variant of decode that compares the field count, commas + 1, with the ceiling.
CsvCoordinateDecoder_decode_CountFields(cfg, inputString) ==
    LET lines == CsvLines(cfg, inputString)
    IN  IF \E i \in 1 .. Len(lines) : CommaCount(lines[i]) + 1 >= cfg.validationMaxColumns
        THEN Threw
        ELSE Returned(CsvCoordinateRows(cfg, lines, 1))

\* CsvCoordinateDecoder.decode
CsvCoordinateDecoder_decode(cfg, inputString) ==
    LET lines == CsvLines(cfg, inputString)
    IN  IF \E i \in 1 .. Len(lines) : CommaCount(lines[i]) >= cfg.validationMaxColumns
        THEN Threw
        ELSE Returned(CsvCoordinateRows(cfg, lines, 1))

InitCsvCoordinate ==
    /\ InitDecoder
    /\ lastOp = "none"
    /\ decoderInput = <<>>
    /\ decoderConfig \in CsvCoordinateConfigs

\* The caller's text grows by one character.
CsvAppendChar ==
    /\ lastOp = "none"
    /\ Len(decoderInput) < MaxCsvLen
    /\ \E c \in CsvChars : decoderInput' = Append(decoderInput, c)
    /\ UNCHANGED <<simVars, decoderConfig, decoderOutput>>

\* new CsvCoordinateDecoder(decoderConfig).decode(decoderInput)
CsvCoordinateDecode ==
    /\ lastOp = "none"
    /\ decoderOutput' = CsvCoordinateDecoder_decode(decoderConfig, decoderInput)
    /\ lastOp' = "decode"
    /\ UNCHANGED <<status, _currentTime, playbackRate, inititalPlaybackRate,
                   baseFrameRate, isPlaying, startPlaying, dirty, dirtyGeometry,
                   animationFrames, coordinateMapping, ctorBaseFrameRate, wroteSince,
                   ret, decoderInput, decoderConfig>>

NextCsvCoordinate == CsvAppendChar \/ CsvCoordinateDecode

SpecCsvCoordinate == InitCsvCoordinate /\ [][NextCsvCoordinate]_vars

\* The number of comma-separated fields of a line.
FieldCount(line) == Len(Split(line, ","))

\* The rows of the text that decode looks at.
CsvRowsSeen == DropFirst(Split(decoderInput, "\n"), decoderConfig.skipRowCount)

CsvDecoded == decoderConfig.kind = "CsvCoordinateDecoder" /\ lastOp = "decode"

\* C4 (as claimed): decode throws, with no partial result, whenever some row has at
\* least validationMaxColumns comma-separated fields, and does not throw when every
\* row has fewer.
C4_RejectsAtLeastMaxFields ==
    CsvDecoded =>
        /\ decoderOutput.threw <=>
               \E i \in 1 .. Len(CsvRowsSeen) :
                   FieldCount(CsvRowsSeen[i]) >= decoderConfig.validationMaxColumns
        /\ decoderOutput.threw => decoderOutput.value = <<>>

\* C4 (amended): decode throws, with no partial result, exactly when some row left
\* after skipping skipRowCount lines has more than validationMaxColumns fields, that
\* is at least validationMaxColumns commas.
C4_RejectsMoreThanMaxFields ==
    CsvDecoded =>
        /\ decoderOutput.threw <=>
               \E i \in 1 .. Len(CsvRowsSeen) :
                   FieldCount(CsvRowsSeen[i]) > decoderConfig.validationMaxColumns
        /\ decoderOutput.threw => decoderOutput.value = <<>>

\* C4 witness: a text with a row of exactly validationMaxColumns fields has been
\* decoded without a throw and yielded coordinates.
C4_Witness ==
    /\ CsvDecoded
    /\ ~decoderOutput.threw
    /\ Len(decoderOutput.value) > 0
    /\ \E i \in 1 .. Len(CsvRowsSeen) :
           FieldCount(CsvRowsSeen[i]) = decoderConfig.validationMaxColumns

(***************************************************************************)
(* CsvAnimationDecoder, default configuration: skipRowCount 0, components  *)
(* r, g, b, identity pixel and frame mappers.                              *)
(*                                                                         *)
(* A JavaScript array with holes is a function from the indices that are   *)
(* set (0-based) to their values.                                          *)
(***************************************************************************)
MaxHeadingColumns == 3
MaxDataRows == 2

Components == <<"r", "g", "b">>

\* this.components.has(name), for a name given as text
ComponentsHas(name) == Len(name) = 1 /\ \E k \in 1 .. Len(Components) : Components[k] = name[1]

\* this.components.get(name)
ComponentsGet(name) == (CHOOSE k \in 1 .. Len(Components) : Components[k] = name[1]) - 1

UpperCase == <<"R", "G", "B", "X">>
LowerCase == <<"r", "g", "b", "x">>

LowerChar(c) ==
    IF \E k \in 1 .. Len(UpperCase) : UpperCase[k] = c
    THEN LowerCase[CHOOSE k \in 1 .. Len(UpperCase) : UpperCase[k] = c]
    ELSE c

\* String.prototype.toLowerCase
ToLowerCase(str) == [i \in 1 .. Len(str) |-> LowerChar(str[i])]

NotMapped == [mapped |-> FALSE, component |-> <<>>, pixel |-> NaN]

\* The body of fields.forEach in decodeHeadingRow: the columnMapping entry of one field
decodeHeadingField(field) ==
    LET parts == Split(field, "_")
    IN  IF Len(parts) # 2 \/ ~ComponentsHas(parts[1])
        THEN NotMapped
        ELSE [mapped |-> TRUE, component |-> parts[1], pixel |-> ParseNumber(parts[2])]

\* CsvAnimationDecoder.decodeHeadingRow
decodeHeadingRow(line) ==
    LET fields == Split(ToLowerCase(line), ",")
    IN  [totalColumnCount |-> Len(fields),
         columnMapping |-> [idx \in 1 .. Len(fields) |-> decodeHeadingField(fields[idx])]]

EmptyArray == [k \in {} |-> 0]

\* a[k] = v on an array with holes
ArraySet(a, k, v) == [i \in DOMAIN a \cup {k} |-> IF i = k THEN v ELSE a[i]]

RECURSIVE AnimationPixels(_, _, _, _)
\* The for loop over the columns of one data row, from columnIndex (1-based) on.  A
\* pixel index of NaN sets the property "NaN", which is no element of the array and
\* is dropped by the line.map(this.pixelMapper) that follows.
AnimationPixels(heading, fields, columnIndex, pixels) ==
    IF columnIndex > heading.totalColumnCount THEN pixels
    ELSE LET mapping == heading.columnMapping[columnIndex]
         IN  IF ~mapping.mapped \/ mapping.pixel.nan
             THEN AnimationPixels(heading, fields, columnIndex + 1, pixels)
             ELSE LET pixelIdx == mapping.pixel.v
                      pixelObj == IF pixelIdx \in DOMAIN pixels
                                  THEN pixels[pixelIdx]
                                  ELSE EmptyArray
                      newObj == ArraySet(pixelObj, ComponentsGet(mapping.component),
                                         ParseNumber(fields[columnIndex]))
                  IN  AnimationPixels(heading, fields, columnIndex + 1,
                                      ArraySet(pixels, pixelIdx, newObj))

RECURSIVE AnimationFrames(_, _, _)
\* lines.map(split).filter(enough fields).map(to pixels), from line i on
AnimationFrames(heading, lines, i) ==
    IF i > Len(lines) THEN <<>>
    ELSE LET fields == Split(lines[i], ",")
         IN  (IF Len(fields) >= heading.totalColumnCount
              THEN <<AnimationPixels(heading, fields, 1, EmptyArray)>>
              ELSE <<>>)
             \o AnimationFrames(heading, lines, i + 1)

\* CsvAnimationDecoder.decode; split always yields a first line, the heading row
CsvAnimationDecoder_decode(inputString) ==
    LET lines == Split(inputString, "\n")
        heading == decodeHeadingRow(lines[1])
    IN  Returned(AnimationFrames(heading, Tail(lines), 1))

(***************************************************************************)
(* Animation texts: a heading row of labels and data rows whose cells are  *)
(* distinct numbers, so that a cell stored in the wrong place shows.       *)
(***************************************************************************)
HeadingLabels ==
    {<<"r", "_", "0">>, <<"g", "_", "0">>, <<"R", "_", "1">>, <<"x">>,
     <<"q", "_", "0">>, <<"r", "_", "x">>, <<"r", "_", "0", "x">>}

RECURSIVE NatToString(_)
NatToString(n) ==
    IF n < 10 THEN <<Digits[n + 1]>> ELSE Append(NatToString(n \div 10), Digits[(n % 10) + 1])

RECURSIVE Join(_, _)
\* Array.prototype.join(sep) read backwards: the text whose split gives `pieces`
Join(pieces, sep) ==
    IF Len(pieces) = 0 THEN <<>>
    ELSE IF Len(pieces) = 1 THEN pieces[1]
    ELSE pieces[1] \o <<sep>> \o Join(Tail(pieces), sep)

\* Data row j with n cells: cell c holds the number (MaxHeadingColumns + 1) * (j - 1) + c.
DataRow(j, n) ==
    Join([c \in 1 .. n |-> NatToString((MaxHeadingColumns + 1) * (j - 1) + c)], ",")

Headings == UNION {[1 .. n -> HeadingLabels] : n \in 1 .. MaxHeadingColumns}

RowShapes == UNION {[1 .. m -> 1 .. (MaxHeadingColumns + 1)] : m \in 0 .. MaxDataRows}

AnimationText(heading, shape) ==
    Join(<<Join(heading, ",")>> \o [j \in 1 .. Len(shape) |-> DataRow(j, shape[j])], "\n")

\* r_0,g_0,b_0,r_1,g_1,b_1 / 10,20,30,40,50,60
ExampleSixColumns ==
    Join(<<Join(<<<<"r", "_", "0">>, <<"g", "_", "0">>, <<"b", "_", "0">>,
                  <<"r", "_", "1">>, <<"g", "_", "1">>, <<"b", "_", "1">>>>, ","),
           Join(<<NatToString(10), NatToString(20), NatToString(30),
                  NatToString(40), NatToString(50), NatToString(60)>>, ",")>>, "\n")

\* x,r_0,g_0,b_0 / 9,10,20,30
ExampleExtraColumn ==
    Join(<<Join(<<<<"x">>, <<"r", "_", "0">>, <<"g", "_", "0">>, <<"b", "_", "0">>>>, ","),
           Join(<<NatToString(9), NatToString(10), NatToString(20), NatToString(30)>>,
                ",")>>, "\n")

\* The texts decode is run on.
IsAnimationText(text) ==
    \/ \E h \in Headings, sh \in RowShapes : text = AnimationText(h, sh)
    \/ text \in {ExampleSixColumns, ExampleExtraColumn}

InitCsvAnimation ==
    /\ InitDecoder
    /\ lastOp = "none"
    /\ IsAnimationText(decoderInput)
    /\ decoderConfig = [kind |-> "CsvAnimationDecoder"]

\* new CsvAnimationDecoder().decode(decoderInput)
CsvAnimationDecode ==
    /\ lastOp = "none"
    /\ decoderOutput' = CsvAnimationDecoder_decode(decoderInput)
    /\ lastOp' = "decode"
    /\ UNCHANGED <<status, _currentTime, playbackRate, inititalPlaybackRate,
                   baseFrameRate, isPlaying, startPlaying, dirty, dirtyGeometry,
                   animationFrames, coordinateMapping, ctorBaseFrameRate, wroteSince,
                   ret, decoderInput, decoderConfig>>

NextCsvAnimation == CsvAnimationDecode

SpecCsvAnimation == InitCsvAnimation /\ [][NextCsvAnimation]_vars

(***************************************************************************)
(* What the specification says an animation text decodes to.               *)
(***************************************************************************)
AnimationDecoded == decoderConfig.kind = "CsvAnimationDecoder" /\ lastOp = "decode"

HeadingLabelsOf(text) == Split(Split(text, "\n")[1], ",")

DataRowsOf(text) ==
    LET lines == Tail(Split(text, "\n"))
    IN  [j \in 1 .. Len(lines) |-> Split(lines[j], ",")]

\* The label has the form <component>_<k>, case-insensitively, k a decimal integer.
IsColumnLabel(label) ==
    LET parts == Split(ToLowerCase(label), "_")
    IN  /\ Len(parts) = 2
        /\ \E k \in 1 .. Len(Components) : parts[1] = <<Components[k]>>
        /\ Len(parts[2]) >= 1
        /\ \A i \in 1 .. Len(parts[2]) : IsDigit(parts[2][i])

PixelOfLabel(label) == DigitPrefixValue(Split(label, "_")[2], 1, 0)

ChannelOfLabel(label) ==
    (CHOOSE k \in 1 .. Len(Components) : ToLowerCase(label)[1] = Components[k]) - 1

\* The frame of one kept row: pixel k, channel ch holds the cell under the (last)
\* column labelled <component ch>_<k>, and nothing else is set.
ExpectedFrame(labels, row) ==
    LET cols == {c \in 1 .. Len(labels) : IsColumnLabel(labels[c])}
        colsOf(k, ch) == {c \in cols : PixelOfLabel(labels[c]) = k
                                       /\ ChannelOfLabel(labels[c]) = ch}
        last(S) == CHOOSE c \in S : \A d \in S : d <= c
    IN  [k \in {PixelOfLabel(labels[c]) : c \in cols} |->
            [ch \in {ChannelOfLabel(labels[c]) :
                        c \in {d \in cols : PixelOfLabel(labels[d]) = k}} |->
                ParseNumber(row[last(colsOf(k, ch))])]]

ExpectedFrames(text) ==
    LET labels == HeadingLabelsOf(text)
        rows == DataRowsOf(text)
        enough(r) == Len(r) >= Len(labels)
        kept == SelectSeq(rows, enough)
    IN  [j \in 1 .. Len(kept) |-> ExpectedFrame(labels, kept[j])]

\* [[10,20,30],[40,50,60]]
ExampleSixColumnsFrames ==
    <<[k \in 0 .. 1 |-> [ch \in 0 .. 2 |-> Num(10 * (3 * k + ch + 1))]]>>

\* [[10,20,30]]
ExampleExtraColumnFrames ==
    <<[k \in {0} |-> [ch \in 0 .. 2 |-> Num(10 * (ch + 1))]]>>

\* C9 (as claimed): decode gives one frame per data row with at least as many fields
\* as the heading row, in order, and drops shorter rows; the cell under a column
\* <component>_<k> is stored at pixel k, channel of that component, and cells under
\* columns not of that form are ignored and alter no pixel; the two worked examples
\* decode as stated.
C9_AnimationDecode ==
    AnimationDecoded =>
        /\ ~decoderOutput.threw
        /\ decoderOutput.value = ExpectedFrames(decoderInput)
        /\ decoderInput = ExampleSixColumns => decoderOutput.value = ExampleSixColumnsFrames
        /\ decoderInput = ExampleExtraColumn => decoderOutput.value = ExampleExtraColumnFrames

\* No heading label has an index part that starts with a digit and goes on otherwise.
PlainHeading(text) ==
    \A c \in 1 .. Len(HeadingLabelsOf(text)) :
        LET parts == Split(ToLowerCase(HeadingLabelsOf(text)[c]), "_")
        IN  (Len(parts) = 2 /\ Len(parts[2]) >= 1 /\ IsDigit(parts[2][1]))
                => \A i \in 1 .. Len(parts[2]) : IsDigit(parts[2][i])

\* The part of C9 the code does satisfy: the same statement for texts whose heading
\* labels carry no index such as 0x.
AnimationDecodeOnPlainHeadings ==
    (AnimationDecoded /\ PlainHeading(decoderInput)) =>
        /\ ~decoderOutput.threw
        /\ decoderOutput.value = ExpectedFrames(decoderInput)
        /\ decoderInput = ExampleSixColumns => decoderOutput.value = ExampleSixColumnsFrames
        /\ decoderInput = ExampleExtraColumn => decoderOutput.value = ExampleExtraColumnFrames

====
